---- MODULE Spec2Model ----
(***************************************************************************)
(* GymBuddy server (Express + better-sqlite3): the seven tables, the REST  *)
(* handlers that mutate them and the personal-records query, as a state    *)
(* machine.  One action per handler; a handler runs to completion (the     *)
(* server is single-threaded and every handler is synchronous).  The       *)
(* client's edit view and workout view are modelled on top of the handlers *)
(* they call.                                                              *)
(***************************************************************************)
EXTENDS Integers, Sequences, FiniteSets, TLC

VARIABLES
    clock,               \* the value Date.now() returns
    foreignKeys,         \* whether the SQLite connection enforces FOREIGN KEY clauses
    exercises,           \* table exercises, in rowid order
    routines,            \* table routines
    routine_exercises,   \* table routine_exercises
    routine_sets,        \* table routine_sets, in rowid order
    workouts,            \* table workouts, in rowid order
    workout_items,       \* table workout_items, in rowid order
    workout_sets,        \* table workout_sets, in rowid order
    nanoids,             \* how many identities nanoid() has produced, per prefix
    status,              \* the HTTP status of the response sent last (0: none yet)
    recorded,            \* the bodies POST /api/workouts has answered with 200, in order
    clientState,         \* the client's STATE: the view and the workout session in progress
    modal                \* the client's modal dialog: hidden, or the one it shows

vars == << clock, foreignKeys, exercises, routines, routine_exercises, routine_sets,
           workouts, workout_items, workout_sets, nanoids, status, recorded, clientState,
           modal >>

routineTables == << routines, routine_exercises, routine_sets >>
workoutTables == << workouts, workout_items, workout_sets, recorded >>
clientVars == << clientState, modal >>

----------------------------------------------------------------------------
(* Bounds of the model *)

MaxClock == 1          \* Date.now() ranges over 0..MaxClock
MaxRoutineIds == 3     \* identities generated for routines, routine exercises and routine sets
MaxWideIds == 4        \* the same, in the specification that reaches two routines with sets
MaxOrderIds == 5       \* the same, in the specification of the order positions
MaxWorkoutIds == 6     \* identities generated for workouts, workout items and workout sets
MaxMarkIds == 5        \* the same, in the specification of the personal records
MaxCustom == 3         \* exercises created through POST /api/exercises
MaxIds == 3            \* identities generated in the specification of every handler
MaxUpdateIds == 3      \* the same, in the specification of the set updates
MaxEditIds == 4        \* the same, in the specification of the client's edit view
MaxClientIds == 3      \* the same, in the specification of the client's workout view
MaxSessionIds == 1     \* a finish is confirmed while fewer identities of workouts than this are in use

----------------------------------------------------------------------------
(* JavaScript and SQL values *)

Null == -1           \* JSON null, SQL NULL
Undef == -2          \* a field the JSON body does not carry (undefined)
NoSuchId == 0        \* an identity (a non-empty string) that no row has
UndefStr == "<undefined>"    \* a string field the JSON body does not carry

\* JavaScript truthiness of an identity or number field: undefined and null are falsy
Truthy(v) == v # Undef /\ v # Null
\* JavaScript truthiness of a string field: undefined and "" are falsy
TruthyStr(s) == s # UndefStr /\ s # ""
\* better-sqlite3 binds numbers, strings and null; binding undefined throws a TypeError
Bindable(v) == v # Undef
\* a ?? null
OrNull(v) == IF v = Undef THEN Null ELSE v

Max(S) == CHOOSE x \in S : \A y \in S : y <= x

\* const now = ()=> Date.now();
now == clock

----------------------------------------------------------------------------
(* SQL statements of the routine handlers *)

RoutineIds == { r.id : r \in routines }
RexIds == { x.id : x \in routine_exercises }
SetIds == { routine_sets[i].id : i \in 1..Len(routine_sets) }
ExerciseIds == { exercises[i].id : i \in 1..Len(exercises) }

\* UPDATE routines SET updatedAt=? WHERE id=?
TouchStale(rt, ts, id) == { IF r.id = id THEN [r EXCEPT !.updatedAt = r.createdAt] ELSE r : r \in rt }
Touch(rt, ts, id) == { IF r.id = id THEN [r EXCEPT !.updatedAt = ts] ELSE r : r \in rt }

\* UPDATE routines SET name=?, updatedAt=? WHERE id=?
Rename(rt, name, ts, id) ==
    { IF r.id = id THEN [r EXCEPT !.name = name, !.updatedAt = ts] ELSE r : r \in rt }

\* UPDATE routine_sets SET reps=?, peso=? WHERE id=?
UpdateSet(rs, reps, peso, id) ==
    [ i \in 1..Len(rs) |->
        IF rs[i].id = id THEN [rs[i] EXCEPT !.reps = reps, !.peso = peso] ELSE rs[i] ]

\* DELETE FROM routine_sets WHERE routine_exercise_id=?
DeleteSetsOfRex(rs, rexId) ==
    SelectSeq(rs, LAMBDA s : s.routine_exercise_id # rexId)

\* DELETE FROM routine_exercises WHERE id=? AND routine_id=?
DeleteRex(rx, rexId, id) ==
    { x \in rx : ~(x.id = rexId /\ x.routine_id = id) }

\* DELETE FROM routine_sets WHERE id=? AND routine_exercise_id=?
DeleteSet(rs, setId, rexId) ==
    SelectSeq(rs, LAMBDA s : ~(s.id = setId /\ s.routine_exercise_id = rexId))

\* SELECT COALESCE(MAX(order_index),0)+1 AS o FROM routine_exercises WHERE routine_id=?
NextOrderGapFill(rx, id) ==
    LET used == { x.order_index : x \in { y \in rx : y.routine_id = id } }
    IN  CHOOSE o \in 1..(Cardinality(used) + 1) :
            o \notin used /\ \A p \in 1..(o - 1) : p \in used
NextOrderCount(rx, id) == Cardinality({ y \in rx : y.routine_id = id }) + 1
NextOrder(rx, id) ==
    LET mine == { x.order_index : x \in { y \in rx : y.routine_id = id } }
    IN  (IF mine = {} THEN 0 ELSE Max(mine)) + 1

----------------------------------------------------------------------------
(* Initial state: the schema is created and the catalog is seeded *)

\* The client's workoutSession before startWorkout has built one (null)
NoSession ==
    [ routineId |-> Null, startedAt |-> Null, finishedAt |-> Null, durationSec |-> 0,
      currentIndex |-> 0, items |-> << >> ]

SeedExercises ==
    << [ id |-> 1, name |-> << "a" >>, image |-> "", bodyPart |-> "Pecho",
         primaryMuscles |-> "", secondaryMuscles |-> "", equipment |-> "", isCustom |-> 0 ] >>

Init ==
    /\ clock = 0
    /\ foreignKeys \in BOOLEAN
    /\ exercises = SeedExercises
    /\ routines = {}
    /\ routine_exercises = {}
    /\ routine_sets = << >>
    /\ workouts = << >>
    /\ workout_items = << >>
    /\ workout_sets = << >>
    /\ nanoids = [ rut |-> 0, rex |-> 0, set |-> 0, cus |-> 0, wo |-> 0, wi |-> 0, ws |-> 0 ]
    /\ status = 0
    /\ recorded = << >>
    /\ clientState = [ view |-> "home", hasSession |-> FALSE, workoutSession |-> NoSession,
                       stopwatchTimer |-> FALSE ]
    /\ modal = "hidden"

\* if(count===0){ ... tx(seed) }: the catalog after the seeding step
SeededAgain(ex) == ex \o SeedExercises
Seeded(ex) == IF Len(ex) = 0 THEN SeedExercises ELSE ex

\* The server process starts again on the same database file: the schema exists, the
\* seeding step runs, no response has been sent yet
Startup ==
    /\ exercises' = Seeded(exercises)
    /\ status' = 0
    /\ UNCHANGED << clock, foreignKeys, routineTables, workoutTables, nanoids >>

\* Date.now() advances between requests
Tick ==
    /\ clock < MaxClock
    /\ clock' = clock + 1
    /\ UNCHANGED << foreignKeys, exercises, routineTables, workoutTables, nanoids, status >>

----------------------------------------------------------------------------
(* Routine handlers *)

RoutineNames == { UndefStr, "", "A" }

\* app.post("/api/routines")
CreateRoutine(name) ==
    /\ LET id == nanoids.rut + 1
           ts == now
       IN  /\ routines' = routines \cup
                 { [ id |-> id, name |-> IF TruthyStr(name) THEN name ELSE "Rutina",
                     createdAt |-> ts, updatedAt |-> ts ] }
           /\ nanoids' = [nanoids EXCEPT !.rut = id]
           /\ status' = 200
    /\ UNCHANGED << clock, foreignKeys, exercises, routine_exercises, routine_sets,
                    workoutTables >>

\* The entries of body.exercises[*].sets, in forEach order; an entry of
\* body.exercises whose sets is not an array contributes none
RECURSIVE ListedSets(_)
ListedSets(list) ==
    IF list = << >> THEN << >>
    ELSE (IF Head(list).hasSets THEN Head(list).sets ELSE << >>) \o ListedSets(Tail(list))

\* The set updates of the PUT transaction, one listed entry after the other; an
\* entry with a falsy id is skipped, binding an undefined value throws
RECURSIVE ApplySetsStrict(_, _)
ApplySetsStrict(rs, entries) ==
    IF entries = << >> THEN [ ok |-> TRUE, sets |-> rs ]
    ELSE LET s == Head(entries)
         IN  IF ~Truthy(s.id) \/ s.id \notin { rs[i].id : i \in 1..Len(rs) }
             THEN [ ok |-> FALSE, sets |-> rs ]
             ELSE ApplySetsStrict(UpdateSet(rs, s.reps, s.peso, s.id), Tail(entries))
RECURSIVE ApplySets(_, _)
ApplySets(rs, entries) ==
    IF entries = << >> THEN [ ok |-> TRUE, sets |-> rs ]
    ELSE LET s == Head(entries)
         IN  IF ~Truthy(s.id) THEN ApplySets(rs, Tail(entries))
             ELSE IF ~(Bindable(s.reps) /\ Bindable(s.peso)) THEN [ ok |-> FALSE, sets |-> rs ]
             ELSE ApplySets(UpdateSet(rs, s.reps, s.peso, s.id), Tail(entries))

\* The (reps, peso) pairs a request carries: both absent, both null, both numbers,
\* and reps absent beside a null peso
ValueInputs == { << Undef, Undef >>, << Null, Null >>, << 1, 2 >>, << Undef, Null >> }

\* The entries of a sets array: each set of the tables with each pair of values, an
\* identity no set has, and an entry without identity
SetEntries ==
    { [ id |-> id, reps |-> v[1], peso |-> v[2] ] :
        id \in SetIds, v \in ValueInputs \ { << Undef, Undef >> } }
    \cup { [ id |-> NoSuchId, reps |-> 1, peso |-> 2 ],
           [ id |-> Undef, reps |-> Undef, peso |-> Null ] }

\* The bodies of PUT /api/routines/:id: name?, exercises?[{sets?[{id, reps, peso}]}]
PutBodies ==
    LET lists == { << >>, << [ hasSets |-> FALSE, sets |-> << >> ] >> }
                 \cup { << [ hasSets |-> TRUE, sets |-> << s >> ] >> : s \in SetEntries }
    IN  [ name : RoutineNames, hasExercises : { FALSE }, exercises : { << >> } ]
        \cup [ name : { UndefStr }, hasExercises : { TRUE }, exercises : lists ]
        \cup [ name : { "A" }, hasExercises : { TRUE },
               exercises : { << >>, << [ hasSets |-> TRUE,
                                         sets |-> << [ id |-> NoSuchId, reps |-> Undef,
                                                       peso |-> Null ] >> ] >> } ]

\* The bodies of PUT /api/routines/:id that carry only the list of exercises, every
\* entry with an identity carrying reps and peso (a number or null): the empty list,
\* one exercise without a sets array, one exercise with up to two entries (the second
\* with values), and an exercise without a sets array before one with an entry
UpdateEntries ==
    { [ id |-> id, reps |-> v[1], peso |-> v[2] ] :
        id \in SetIds \cup { NoSuchId }, v \in { << Null, Null >>, << 1, 2 >> } }
    \cup { [ id |-> Undef, reps |-> 1, peso |-> 2 ] }
UpdateBodies ==
    LET none == [ hasSets |-> FALSE, sets |-> << >> ]
        some == { [ hasSets |-> TRUE, sets |-> ss ] :
                    ss \in { << >> } \cup { << a >> : a \in UpdateEntries }
                           \cup { << a, b >> : a \in UpdateEntries,
                                                b \in { c \in UpdateEntries : c.peso # Null } } }
        lists == { << >>, << none >> } \cup { << x >> : x \in some }
                 \cup { << none, x >> : x \in { y \in some : Len(y.sets) = 1 } }
    IN  [ name : { UndefStr }, hasExercises : { TRUE }, exercises : lists ]

\* app.put("/api/routines/:id")
PutRoutine(id, body) ==
    LET renamed == IF TruthyStr(body.name) THEN Rename(routines, body.name, now, id)
                   ELSE routines
        tx == IF body.hasExercises
              THEN ApplySets(routine_sets, ListedSets(body.exercises))
              ELSE [ ok |-> TRUE, sets |-> routine_sets ]
    IN  /\ routines' = IF body.hasExercises /\ tx.ok THEN Touch(renamed, now, id) ELSE renamed
        /\ routine_sets' = IF tx.ok THEN tx.sets ELSE routine_sets
        /\ status' = IF tx.ok THEN 200 ELSE 500
        /\ UNCHANGED << clock, foreignKeys, exercises, routine_exercises, workoutTables,
                        nanoids >>

\* app.delete("/api/routines/:id/exercises/:rexId")
RemoveExercise(id, rexId) ==
    /\ routine_sets' = DeleteSetsOfRex(routine_sets, rexId)
    /\ routine_exercises' = DeleteRex(routine_exercises, rexId, id)
    /\ routines' = Touch(routines, now, id)
    /\ status' = 200
    /\ UNCHANGED << clock, foreignKeys, exercises, workoutTables, nanoids >>

\* app.post("/api/routines/:id/exercises")
AddExerciseUnchecked(id, exerciseId) ==
    /\ LET rexId == nanoids.rex + 1
           order == NextOrder(routine_exercises, id)
           fkOk == foreignKeys => (id \in RoutineIds /\ exerciseId \in ExerciseIds)
       IN  IF ~Bindable(exerciseId) \/ ~fkOk
           THEN /\ status' = 500
                /\ UNCHANGED << routineTables, nanoids >>
           ELSE /\ routine_exercises' = routine_exercises \cup
                      { [ id |-> rexId, routine_id |-> id, exercise_id |-> exerciseId,
                          order_index |-> order ] }
                /\ routines' = Touch(routines, now, id)
                /\ nanoids' = [nanoids EXCEPT !.rex = rexId]
                /\ status' = 200
                /\ UNCHANGED routine_sets
    /\ UNCHANGED << clock, foreignKeys, exercises, workoutTables >>
AddExercise(id, exerciseId) ==
    /\ LET rexId == nanoids.rex + 1
           order == NextOrder(routine_exercises, id)
           fkOk == foreignKeys => (id \in RoutineIds /\ exerciseId \in ExerciseIds)
       IN  IF ~Truthy(exerciseId)
           THEN /\ status' = 400
                /\ UNCHANGED << routineTables, nanoids >>
           ELSE IF ~fkOk
           THEN /\ status' = 500
                /\ UNCHANGED << routineTables, nanoids >>
           ELSE /\ routine_exercises' = routine_exercises \cup
                      { [ id |-> rexId, routine_id |-> id, exercise_id |-> exerciseId,
                          order_index |-> order ] }
                /\ routines' = Touch(routines, now, id)
                /\ nanoids' = [nanoids EXCEPT !.rex = rexId]
                /\ status' = 200
                /\ UNCHANGED routine_sets
    /\ UNCHANGED << clock, foreignKeys, exercises, workoutTables >>

\* app.post("/api/routines/:id/exercises/:rexId/sets")
AddSet(id, rexId, reps, peso) ==
    /\ LET setId == nanoids.set + 1
           fkOk == foreignKeys => rexId \in RexIds
       IN  IF ~fkOk
           THEN /\ status' = 500
                /\ UNCHANGED << routineTables, nanoids >>
           ELSE /\ routine_sets' = Append(routine_sets,
                      [ id |-> setId, routine_exercise_id |-> rexId,
                        reps |-> OrNull(reps), peso |-> OrNull(peso) ])
                /\ routines' = Touch(routines, now, id)
                /\ nanoids' = [nanoids EXCEPT !.set = setId]
                /\ status' = 200
                /\ UNCHANGED routine_exercises
    /\ UNCHANGED << clock, foreignKeys, exercises, workoutTables >>

\* app.delete("/api/routines/:id/exercises/:rexId/sets/:setId")
RemoveSet(id, rexId, setId) ==
    /\ routine_sets' = DeleteSet(routine_sets, setId, rexId)
    /\ routines' = Touch(routines, now, id)
    /\ status' = 200
    /\ UNCHANGED << clock, foreignKeys, exercises, routine_exercises, workoutTables, nanoids >>

\* The identities a request can name: those of the rows, and one no row has
RoutineArgs == RoutineIds \cup { NoSuchId }
RexArgs == RexIds \cup { NoSuchId }
SetArgs == SetIds \cup { NoSuchId }
ExerciseArgs == ExerciseIds \cup { NoSuchId, Undef }

----------------------------------------------------------------------------
(* Exercise catalog *)

\* String.prototype.trim on a string given as its sequence of characters
RECURSIVE TrimStart(_)
TrimStart(s) == IF s # << >> /\ Head(s) = " " THEN TrimStart(Tail(s)) ELSE s
RECURSIVE TrimEnd(_)
TrimEnd(s) ==
    IF s # << >> /\ s[Len(s)] = " " THEN TrimEnd(SubSeq(s, 1, Len(s) - 1)) ELSE s
Trim(s) == TrimEnd(TrimStart(s))

\* p.x || ""
OrEmpty(s) == IF TruthyStr(s) THEN s ELSE ""

\* The bodies of POST /api/exercises; name is absent or a string of characters
ExerciseBodies ==
    [ hasName : { TRUE }, name : { << >>, << " " >>, << "a" >>, << " ", "a" >> },
      bodyPart : { UndefStr, "Pecho" } ]
    \cup [ hasName : { FALSE }, name : { << >> }, bodyPart : { UndefStr, "Pecho" } ]

\* !p.name
NameMissing(p) == ~p.hasName \/ p.name = << >>

\* app.post("/api/exercises"); the body carries no image, muscles or equipment
CreateExercise(p) ==
    /\ IF NameMissing(p)
       THEN /\ status' = 400
            /\ UNCHANGED << exercises, nanoids >>
       ELSE /\ exercises' = Append(exercises,
                  [ id |-> Len(SeedExercises) + nanoids.cus + 1, name |-> Trim(p.name),
                    image |-> OrEmpty(UndefStr), bodyPart |-> OrEmpty(p.bodyPart),
                    primaryMuscles |-> OrEmpty(UndefStr), secondaryMuscles |-> OrEmpty(UndefStr),
                    equipment |-> OrEmpty(UndefStr), isCustom |-> 1 ])
            /\ nanoids' = [nanoids EXCEPT !.cus = @ + 1]
            /\ status' = 200
    /\ UNCHANGED << clock, foreignKeys, routineTables, workoutTables >>

----------------------------------------------------------------------------
(* Workouts *)

\* st.done ? 1 : 0, for done given as true, false or not at all
DoneFlag(d) == IF d = "true" THEN 1 ELSE 0

\* The sets of a workout payload when the flag and the failure matter: two (reps, peso)
\* pairs, done given as true, as false and not at all, and one set whose reps is missing
FlaggedSetInputs ==
    [ reps : { 5 }, peso : { 100 }, done : { "true", "undefined" } ]
    \cup [ reps : { Null }, peso : { Null }, done : { "false" } ]
    \cup [ reps : { Undef }, peso : { 100 }, done : { "true" } ]

\* The sets of a workout payload when the ranking matters: every (reps, peso) pair
RankedSetInputs == [ reps : { Null, 5, 8 }, peso : { Null, 50, 100 }, done : { "true" } ]

\* The sequences of n elements of S
Tuples(S, n) == [ 1..n -> S ]

\* The items with exactly n sets, the exercise identity drawn from E, the sets from S;
\* an item whose exerciseId is missing carries no sets
ItemInputs(n, E, S) ==
    { [ exerciseId |-> e, name |-> "a", bodyPart |-> "Pecho", image |-> "", sets |-> ss ] :
        e \in IF n = 0 THEN E ELSE E \ { Undef }, ss \in Tuples(S, n) }

\* The item lists whose items and sets need at most n identities
RECURSIVE ItemLists(_, _, _)
ItemLists(n, E, S) ==
    { << >> } \cup
    UNION { { << it >> \o rest : it \in ItemInputs(k, E, S), rest \in ItemLists(n - 1 - k, E, S) } :
            k \in 0..(n - 1) }

\* The bodies of POST /api/workouts that need at most n identities
\* and name a routine of R
WorkoutBodies(n, R, E, S) ==
    IF n < 1 THEN {}
    ELSE { [ routineId |-> r, startedAt |-> 0, finishedAt |-> 1, durationSec |-> 1,
             items |-> l ] : r \in R, l \in ItemLists(n - 1, E, S) }

\* (it.sets||[]).forEach(st => INSERT INTO workout_sets ...), for the item with identity wi:
\* the table after the inserts, or ok = FALSE when a value cannot be bound
RECURSIVE InsertSets(_, _, _, _)
InsertSets(ws, next, wi, sets) ==
    IF sets = << >> THEN [ ok |-> TRUE, ws |-> ws, next |-> next ]
    ELSE LET st == Head(sets)
         IN  IF ~(Bindable(st.reps) /\ Bindable(st.peso))
             THEN [ ok |-> FALSE, ws |-> ws, next |-> next ]
             ELSE InsertSets(Append(ws, [ id |-> next + 1, workout_item_id |-> wi,
                                          reps |-> st.reps, peso |-> st.peso,
                                          done |-> DoneFlag(st.done) ]),
                             next + 1, wi, Tail(sets))

\* (s.items||[]).forEach((it, idx) => INSERT INTO workout_items ...; its sets), from
\* position idx on: the two tables after the inserts, or ok = FALSE
RECURSIVE InsertItems(_, _, _, _)
InsertItems(tabs, id, items, idx) ==
    IF idx > Len(items) THEN tabs
    ELSE LET it == items[idx]
             wi == tabs.nwi + 1
             row == [ id |-> wi, workout_id |-> id, exercise_id |-> it.exerciseId,
                      name |-> it.name, bodyPart |-> it.bodyPart, image |-> it.image,
                      order_index |-> idx - 1 ]
             sets == InsertSets(tabs.ws, tabs.nws, wi, it.sets)
         IN  IF ~Bindable(it.exerciseId) \/ ~sets.ok
             THEN [ tabs EXCEPT !.ok = FALSE ]
             ELSE InsertItems([ ok |-> TRUE, wi |-> Append(tabs.wi, row), ws |-> sets.ws,
                                nwi |-> wi, nws |-> sets.next ],
                              id, items, idx + 1)

\* app.post("/api/workouts"): one transaction; a throw inside it rolls every insert back
RecordWorkoutNoRollback(s) ==
    LET id == nanoids.wo + 1
        row == [ id |-> id, routine_id |-> s.routineId, startedAt |-> s.startedAt,
                 finishedAt |-> s.finishedAt, durationSec |-> s.durationSec ]
        tx == InsertItems([ ok |-> TRUE, wi |-> workout_items, ws |-> workout_sets,
                            nwi |-> nanoids.wi, nws |-> nanoids.ws ],
                          id, s.items, 1)
    IN  /\ workouts' = Append(workouts, row)
        /\ workout_items' = tx.wi
        /\ workout_sets' = tx.ws
        /\ nanoids' = [nanoids EXCEPT !.wo = id, !.wi = tx.nwi, !.ws = tx.nws]
        /\ recorded' = IF tx.ok THEN Append(recorded, s) ELSE recorded
        /\ status' = IF tx.ok THEN 200 ELSE 500
        /\ UNCHANGED << clock, foreignKeys, exercises, routineTables >>
RecordWorkoutOverwrite(s) ==
    LET id == nanoids.wo + 1
        row == [ id |-> id, routine_id |-> s.routineId, startedAt |-> s.startedAt,
                 finishedAt |-> s.finishedAt, durationSec |-> s.durationSec ]
        tx == InsertItems([ ok |-> TRUE, wi |-> workout_items, ws |-> workout_sets,
                            nwi |-> nanoids.wi, nws |-> nanoids.ws ],
                          id, s.items, 1)
    IN  /\ IF tx.ok
           THEN /\ workouts' = Append(SelectSeq(workouts, LAMBDA w : w.routine_id # s.routineId),
                                      row)
                /\ recorded' = Append(recorded, s)
                /\ workout_items' = tx.wi
                /\ workout_sets' = tx.ws
                /\ nanoids' = [nanoids EXCEPT !.wo = id, !.wi = tx.nwi, !.ws = tx.nws]
                /\ status' = 200
           ELSE /\ status' = 500
                /\ UNCHANGED << workoutTables, nanoids >>
        /\ UNCHANGED << clock, foreignKeys, exercises, routineTables >>
RecordWorkout(s) ==
    LET id == nanoids.wo + 1
        row == [ id |-> id, routine_id |-> s.routineId, startedAt |-> s.startedAt,
                 finishedAt |-> s.finishedAt, durationSec |-> s.durationSec ]
        tx == InsertItems([ ok |-> TRUE, wi |-> workout_items, ws |-> workout_sets,
                            nwi |-> nanoids.wi, nws |-> nanoids.ws ],
                          id, s.items, 1)
    IN  /\ IF tx.ok
           THEN /\ workouts' = Append(workouts, row)
                /\ recorded' = Append(recorded, s)
                /\ workout_items' = tx.wi
                /\ workout_sets' = tx.ws
                /\ nanoids' = [nanoids EXCEPT !.wo = id, !.wi = tx.nwi, !.ws = tx.nws]
                /\ status' = 200
           ELSE /\ status' = 500
                /\ UNCHANGED << workoutTables, nanoids >>
        /\ UNCHANGED << clock, foreignKeys, exercises, routineTables >>

----------------------------------------------------------------------------
(* Personal records *)

\* FROM workout_sets ws JOIN workout_items wi ON wi.id = ws.workout_item_id: the
\* columns the query reads, for the item at position i and the set at position j
JoinedLeft(wi, ws) ==
    { [ exercise_id |-> wi[i].exercise_id, name |-> wi[i].name, bodyPart |-> wi[i].bodyPart,
        image |-> wi[i].image, peso |-> Null, reps |-> Null ] :
      i \in { k \in 1..Len(wi) : \A j \in 1..Len(ws) : ws[j].workout_item_id # wi[k].id } }
    \cup
    { [ exercise_id |-> wi[p[1]].exercise_id, name |-> wi[p[1]].name,
        bodyPart |-> wi[p[1]].bodyPart, image |-> wi[p[1]].image,
        peso |-> ws[p[2]].peso, reps |-> ws[p[2]].reps ] :
      p \in { q \in (1..Len(wi)) \X (1..Len(ws)) : ws[q[2]].workout_item_id = wi[q[1]].id } }
Joined(wi, ws) ==
    { [ exercise_id |-> wi[p[1]].exercise_id, name |-> wi[p[1]].name,
        bodyPart |-> wi[p[1]].bodyPart, image |-> wi[p[1]].image,
        peso |-> ws[p[2]].peso, reps |-> ws[p[2]].reps ] :
      p \in { q \in (1..Len(wi)) \X (1..Len(ws)) : ws[q[2]].workout_item_id = wi[q[1]].id } }

\* x IS NULL, as the integer SQLite sorts by
IsNull(v) == IF v = Null THEN 1 ELSE 0

\* ORDER BY (ws.peso IS NULL) ASC, ws.peso DESC, (ws.reps IS NULL) ASC, ws.reps DESC:
\* row a sorts strictly before row b
SortsBeforeRepsAsc(a, b) ==
    \/ IsNull(a.peso) < IsNull(b.peso)
    \/ /\ IsNull(a.peso) = IsNull(b.peso)
       /\ \/ a.peso > b.peso
          \/ /\ a.peso = b.peso
             /\ \/ IsNull(a.reps) < IsNull(b.reps)
                \/ IsNull(a.reps) = IsNull(b.reps) /\ a.reps < b.reps
SortsBefore(a, b) ==
    \/ IsNull(a.peso) < IsNull(b.peso)
    \/ /\ IsNull(a.peso) = IsNull(b.peso)
       /\ \/ a.peso > b.peso
          \/ /\ a.peso = b.peso
             /\ \/ IsNull(a.reps) < IsNull(b.reps)
                \/ IsNull(a.reps) = IsNull(b.reps) /\ a.reps > b.reps

\* The row ROW_NUMBER() numbers 1 in the partition of exercise e; rows that tie on
\* the whole sort key carry the same peso and reps
TopRow(rows, e) ==
    LET part == { r \in rows : r.exercise_id = e }
    IN  CHOOSE r \in part : \A o \in part : ~SortsBefore(o, r)

\* COALESCE(reps,0)
Coalesce0(v) == IF v = Null THEN 0 ELSE v

\* app.get("/api/marks"): the rows of the response (sorted by name when sent)
Marks ==
    LET rows == Joined(workout_items, workout_sets)
    IN  { [ exercise_id |-> e, name |-> TopRow(rows, e).name,
            bodyPart |-> TopRow(rows, e).bodyPart, image |-> TopRow(rows, e).image,
            pr_weight |-> TopRow(rows, e).peso,
            reps_at_pr |-> Coalesce0(TopRow(rows, e).reps) ] :
          e \in { r.exercise_id : r \in rows } }

----------------------------------------------------------------------------
(* Routine queries *)

\* ORDER BY re.order_index ASC, re.id ASC
RexBefore(x, y) ==
    x.order_index < y.order_index \/ (x.order_index = y.order_index /\ x.id < y.id)
RECURSIVE Ordered(_)
Ordered(rows) ==
    IF rows = {} THEN << >>
    ELSE LET first == CHOOSE x \in rows : \A y \in rows \ { x } : RexBefore(x, y)
         IN  << first >> \o Ordered(rows \ { first })

\* The row of table exercises with identity id
ExerciseRow(id) == exercises[CHOOSE i \in 1..Len(exercises) : exercises[i].id = id]

\* function loadRoutineFull(id), for a routine that exists: the routine with its
\* exercises (routine_exercises JOIN exercises) in order, each with its sets in rowid order
LoadRoutineFull(id) ==
    LET r == CHOOSE q \in routines : q.id = id
        exs == Ordered({ x \in routine_exercises :
                           x.routine_id = id /\ x.exercise_id \in ExerciseIds })
    IN  [ id |-> r.id, name |-> r.name, createdAt |-> r.createdAt, updatedAt |-> r.updatedAt,
          exercises |->
            [ k \in 1..Len(exs) |->
                [ id |-> exs[k].id, order_index |-> exs[k].order_index,
                  exercise |-> ExerciseRow(exs[k].exercise_id),
                  sets |-> SelectSeq(routine_sets,
                                     LAMBDA s : s.routine_exercise_id = exs[k].id) ] ] ]

\* app.get("/api/routines"): the length of the exercises array of the entry of routine id,
\* from SELECT COUNT(*) AS c, routine_id FROM routine_exercises GROUP BY routine_id
ListedExerciseCount(id) == Cardinality({ x \in routine_exercises : x.routine_id = id })

----------------------------------------------------------------------------
(* Client: the edit view of a routine *)

\* The value of a number input, as its sequence of characters; << >> is ""
InputValues == { << >>, << "8" >>, << "1", "2" >> }

\* parseInt(v, 10) and parseFloat(v) of a string of decimal digits
DigitOf == "0" :> 0 @@ "1" :> 1 @@ "2" :> 2 @@ "3" :> 3 @@ "4" :> 4 @@ "5" :> 5 @@
           "6" :> 6 @@ "7" :> 7 @@ "8" :> 8 @@ "9" :> 9
RECURSIVE ParseInt(_)
ParseInt(v) ==
    IF Len(v) = 1 THEN DigitOf[v[1]]
    ELSE 10 * ParseInt(SubSeq(v, 1, Len(v) - 1)) + DigitOf[v[Len(v)]]

\* function EditExerciseCard(r, x): the card of routine exercise x, one row of two
\* inputs per set; both inputs are rendered with value=""
EditExerciseCard(x) ==
    [ rex |-> x.id,
      rows |-> [ k \in 1..Len(x.sets) |->
                   [ set |-> x.sets[k].id, repsVal |-> << >>, pesoVal |-> << >> ] ] ]

\* The cards after the user has typed reps into every reps input and peso into every
\* peso input; typing "" leaves an input as it was rendered
Typed(cards, reps, peso) ==
    [ c \in 1..Len(cards) |->
        [ cards[c] EXCEPT !.rows =
            [ k \in 1..Len(cards[c].rows) |->
                [ cards[c].rows[k] EXCEPT
                    !.repsVal = IF reps = << >> THEN @ ELSE reps,
                    !.pesoVal = IF peso = << >> THEN @ ELSE peso ] ] ] ]

\* function collectRoutineFromDOM(r): the body of the PUT request
CollectRoutineFromDOM(cards) ==
    [ name |-> UndefStr, hasExercises |-> TRUE,
      exercises |->
        [ c \in 1..Len(cards) |->
            [ hasSets |-> TRUE,
              sets |-> [ k \in 1..Len(cards[c].rows) |->
                           LET row == cards[c].rows[k]
                           IN  [ id |-> row.set,
                                 reps |-> IF row.repsVal = << >> THEN Null
                                          ELSE ParseInt(row.repsVal),
                                 peso |-> IF row.pesoVal = << >> THEN Null
                                          ELSE ParseInt(row.pesoVal) ] ] ] ] ]

\* The user opens the edit view of routine id (renderEditRoutine fetches and renders
\* it), types reps and peso or nothing, and clicks "Guardar cambios"
SaveRoutine(id, reps, peso) ==
    LET r == LoadRoutineFull(id)
        cards == [ c \in 1..Len(r.exercises) |-> EditExerciseCard(r.exercises[c]) ]
    IN  PutRoutine(id, CollectRoutineFromDOM(Typed(cards, reps, peso)))

----------------------------------------------------------------------------
(* Client: the workout view *)

serverTables == << clock, foreignKeys, exercises, routineTables, workoutTables, nanoids >>

\* The items of the session startWorkout builds from the routine r it fetched
SessionItems(r) ==
    [ c \in 1..Len(r.exercises) |->
        LET x == r.exercises[c]
        IN  [ exerciseId |-> x.exercise.id, name |-> x.exercise.name,
              image |-> x.exercise.image, bodyPart |-> x.exercise.bodyPart,
              sets |-> [ k \in 1..Len(x.sets) |->
                           [ id |-> x.sets[k].id, reps |-> x.sets[k].reps,
                             peso |-> x.sets[k].peso, done |-> FALSE ] ] ] ]

\* JSON.stringify(STATE.workoutSession), as the server reads it
Payload(sess) ==
    [ routineId |-> sess.routineId, startedAt |-> sess.startedAt,
      finishedAt |-> sess.finishedAt, durationSec |-> sess.durationSec,
      items |-> [ c \in 1..Len(sess.items) |->
                    [ exerciseId |-> sess.items[c].exerciseId, name |-> sess.items[c].name,
                      bodyPart |-> sess.items[c].bodyPart, image |-> sess.items[c].image,
                      sets |-> [ k \in 1..Len(sess.items[c].sets) |->
                                   [ reps |-> sess.items[c].sets[k].reps,
                                     peso |-> sess.items[c].sets[k].peso,
                                     done |-> IF sess.items[c].sets[k].done THEN "true"
                                              ELSE "false" ] ] ] ] ]

\* $("#card-train") click: go(Views.ROUTINES), which fetches the list of routines
CardTrain ==
    /\ clientState.view = "home" /\ modal = "hidden"
    /\ clientState' = [ clientState EXCEPT !.view = "routines" ]
    /\ status' = 200
    /\ UNCHANGED << serverTables, modal >>

\* async function startWorkout(routineId), from a play button of the routines view
StartWorkout(routineId) ==
    /\ clientState.view = "routines" /\ modal = "hidden"
    /\ LET r == LoadRoutineFull(routineId)
       IN  clientState' =
             IF Len(r.exercises) = 0
             THEN [ clientState EXCEPT !.view = "edit" ]
             ELSE [ view |-> "workout", hasSession |-> TRUE, stopwatchTimer |-> TRUE,
                    workoutSession |->
                      [ routineId |-> r.id, startedAt |-> clock, finishedAt |-> Null,
                        durationSec |-> 0, currentIndex |-> 0, items |-> SessionItems(r) ] ]
    /\ status' = 200
    /\ UNCHANGED << serverTables, modal >>

\* $("#back") click in the edit view and $("#wo-back") click in the workout view:
\* go(Views.ROUTINES); the session and its stopwatch stay as they are
BackSaving ==
    /\ clientState.view \in { "edit", "workout" } /\ modal = "hidden"
    /\ clientState' = [ clientState EXCEPT !.view = "routines" ]
    /\ IF clientState.view = "workout"
       THEN RecordWorkout(Payload(clientState.workoutSession))
       ELSE status' = 200 /\ UNCHANGED serverTables
    /\ UNCHANGED modal
Back ==
    /\ clientState.view \in { "edit", "workout" } /\ modal = "hidden"
    /\ clientState' = [ clientState EXCEPT !.view = "routines" ]
    /\ status' = 200
    /\ UNCHANGED << serverTables, modal >>

\* $("#wo-prev") and $("#wo-next") click
WoStep(d) ==
    /\ clientState.view = "workout" /\ modal = "hidden"
    /\ LET sess == clientState.workoutSession
           idx == sess.currentIndex + d
       IN  /\ idx >= 0 /\ idx < Len(sess.items)
           /\ clientState' = [ clientState EXCEPT !.workoutSession.currentIndex = idx ]
    /\ UNCHANGED << serverTables, status, modal >>

\* input event on the reps input of set k of the item on display
SetReps(k, reps) ==
    /\ clientState.view = "workout" /\ modal = "hidden"
    /\ LET sess == clientState.workoutSession
           c == sess.currentIndex + 1
       IN  /\ k \in 1..Len(sess.items[c].sets)
           /\ clientState' =
                [ clientState EXCEPT !.workoutSession.items[c].sets[k].reps =
                                        IF reps = << >> THEN Null ELSE ParseInt(reps) ]
    /\ UNCHANGED << serverTables, status, modal >>

\* input event on the peso input of set k of the item on display
SetPeso(k, peso) ==
    /\ clientState.view = "workout" /\ modal = "hidden"
    /\ LET sess == clientState.workoutSession
           c == sess.currentIndex + 1
       IN  /\ k \in 1..Len(sess.items[c].sets)
           /\ clientState' =
                [ clientState EXCEPT !.workoutSession.items[c].sets[k].peso =
                                        IF peso = << >> THEN Null ELSE ParseInt(peso) ]
    /\ UNCHANGED << serverTables, status, modal >>

\* click on the completion toggle of set k of the item on display
Toggle(k) ==
    /\ clientState.view = "workout" /\ modal = "hidden"
    /\ LET sess == clientState.workoutSession
           c == sess.currentIndex + 1
       IN  /\ k \in 1..Len(sess.items[c].sets)
           /\ clientState' =
                [ clientState EXCEPT !.workoutSession.items[c].sets[k].done = ~@ ]
    /\ UNCHANGED << serverTables, status, modal >>

\* the stopwatch's interval callback
Stopwatch ==
    /\ clientState.stopwatchTimer
    /\ clientState' =
         [ clientState EXCEPT !.workoutSession.durationSec =
             (clock - clientState.workoutSession.startedAt) \div 1000 ]
    /\ UNCHANGED << serverTables, status, modal >>

\* $("#wo-finish") click, on the last item: the confirmation dialog opens
WoFinish ==
    /\ clientState.view = "workout" /\ modal = "hidden"
    /\ clientState.workoutSession.currentIndex = Len(clientState.workoutSession.items) - 1
    /\ modal' = "confirm"
    /\ UNCHANGED << serverTables, status, clientState >>

\* closeModal: "Reanudar", the close button or the backdrop
CloseModal ==
    /\ modal # "hidden"
    /\ modal' = "hidden"
    /\ UNCHANGED << serverTables, status, clientState >>

\* $("#confirm-finish") click: the session is posted; the closing dialog opens when
\* the server has answered 200
ConfirmFinish ==
    /\ modal = "confirm"
    /\ LET sess == [ clientState.workoutSession EXCEPT !.finishedAt = clock ]
       IN  /\ clientState' = [ clientState EXCEPT !.workoutSession = sess,
                                                  !.stopwatchTimer = FALSE ]
           /\ RecordWorkout(Payload(sess))
    /\ modal' = IF status' = 200 THEN "done" ELSE "hidden"

\* $("#ok-done") click
OkDone ==
    /\ modal = "done"
    /\ modal' = "hidden"
    /\ clientState' = [ clientState EXCEPT !.hasSession = FALSE, !.workoutSession = NoSession,
                                           !.view = "home" ]
    /\ UNCHANGED << serverTables, status >>

----------------------------------------------------------------------------
(* Specifications *)

RoutineIdsUsed == nanoids.rut + nanoids.rex + nanoids.set
WorkoutIdsUsed == nanoids.wo + nanoids.wi + nanoids.ws
IdsUsed == RoutineIdsUsed + WorkoutIdsUsed + nanoids.cus

\* A request to one of the routine handlers, while fewer than cap identities are in use
RoutineRequest(cap) ==
    \/ \E id \in RoutineArgs, body \in PutBodies : PutRoutine(id, body)
    \/ \E id \in RoutineArgs, rexId \in RexArgs : RemoveExercise(id, rexId)
    \/ \E id \in RoutineArgs, rexId \in RexArgs, setId \in SetArgs : RemoveSet(id, rexId, setId)
    \/ /\ RoutineIdsUsed < cap
       /\ \/ \E name \in RoutineNames : CreateRoutine(name)
          \/ \E id \in RoutineArgs, exerciseId \in ExerciseArgs : AddExercise(id, exerciseId)
          \/ \E id \in RoutineArgs, rexId \in RexArgs, v \in ValueInputs \ { << Undef, Null >> } :
                AddSet(id, rexId, v[1], v[2])

NextRoutines == Tick \/ RoutineRequest(MaxRoutineIds)

\* The routine handlers alone
SpecRoutines == Init /\ [][NextRoutines /\ UNCHANGED clientVars]_vars

NextRoutinesWide == Tick \/ RoutineRequest(MaxWideIds)

\* The routine handlers alone, with room for two routines that own exercises and sets
SpecRoutinesWide == Init /\ [][NextRoutinesWide /\ UNCHANGED clientVars]_vars

NextOrdering ==
    \/ \E id \in RoutineArgs, rexId \in RexArgs : RemoveExercise(id, rexId)
    \/ /\ RoutineIdsUsed < MaxOrderIds
       /\ \/ \E name \in RoutineNames : CreateRoutine(name)
          \/ \E id \in RoutineArgs, exerciseId \in ExerciseArgs : AddExercise(id, exerciseId)

\* The handlers that create routines and add and remove their exercises, at one instant
SpecOrder == Init /\ [][NextOrdering /\ UNCHANGED clientVars]_vars

NextCatalog ==
    \/ nanoids.cus < MaxCustom /\ \E p \in ExerciseBodies : CreateExercise(p)
    \/ Startup

\* The catalog handler and the restarts of the server
SpecCatalog == Init /\ [][NextCatalog /\ UNCHANGED clientVars]_vars

NextWorkouts ==
    \E s \in WorkoutBodies(MaxWorkoutIds - WorkoutIdsUsed, { Null, NoSuchId }, { 1, 2, Undef },
                        FlaggedSetInputs) :
        RecordWorkout(s)

\* The workout handler alone
SpecWorkouts == Init /\ [][NextWorkouts /\ UNCHANGED clientVars]_vars

NextMarks ==
    \E s \in WorkoutBodies(MaxMarkIds - WorkoutIdsUsed, { Null }, { 1, 2 }, RankedSetInputs) :
        RecordWorkout(s)

\* The workout handler alone, on the payloads whose sets the personal records rank
SpecMarks == Init /\ [][NextMarks /\ UNCHANGED clientVars]_vars

NextUpdate ==
    \/ Tick
    \/ \E id \in RoutineArgs, body \in UpdateBodies : PutRoutine(id, body)
    \/ /\ RoutineIdsUsed < MaxUpdateIds
       /\ \/ CreateRoutine("A")
          \/ \E id \in RoutineIds, exerciseId \in ExerciseIds \cup { Undef } :
                AddExercise(id, exerciseId)
          \/ \E x \in routine_exercises : AddSet(x.routine_id, x.id, Null, Null)

\* Routines built the way the client builds them (a set is added without values), the
\* request to add an exercise that names none, and the set updates of PUT /api/routines/:id
SpecUpdate == Init /\ [][NextUpdate /\ UNCHANGED clientVars]_vars

NextEdit ==
    \/ Tick
    \/ \E id \in RoutineIds, reps \in InputValues, peso \in InputValues :
          SaveRoutine(id, reps, peso)
    \/ /\ RoutineIdsUsed < MaxEditIds
       /\ \/ CreateRoutine("A")
          \/ \E id \in RoutineIds, exerciseId \in ExerciseIds : AddExercise(id, exerciseId)
          \/ \E x \in routine_exercises : AddSet(x.routine_id, x.id, Null, Null)

\* The client's edit view: routines, exercises and sets added the way the client adds
\* them, and "Guardar cambios"
SpecEdit == Init /\ [][NextEdit /\ UNCHANGED clientVars]_vars

NextClient ==
    \/ Tick /\ UNCHANGED clientVars
    \/ /\ RoutineIdsUsed < MaxClientIds
       /\ \/ CreateRoutine("A")
          \/ \E id \in RoutineIds, exerciseId \in ExerciseIds : AddExercise(id, exerciseId)
          \/ \E x \in routine_exercises : AddSet(x.routine_id, x.id, 5, 12)
       /\ UNCHANGED clientVars
    \/ CardTrain
    \/ \E routineId \in RoutineIds : StartWorkout(routineId)
    \/ Back
    \/ \E d \in { -1, 1 } : WoStep(d)
    \/ \E k \in 1..MaxClientIds, reps \in { << "8" >> } : SetReps(k, reps)
    \/ \E k \in 1..MaxClientIds, peso \in { << >> } : SetPeso(k, peso)
    \/ \E k \in 1..MaxClientIds : Toggle(k)
    \/ Stopwatch
    \/ WoFinish
    \/ CloseModal
    \/ WorkoutIdsUsed < MaxSessionIds /\ ConfirmFinish
    \/ OkDone

\* The client's workout view over routines built through the server: starting a workout,
\* editing it, leaving it, and finishing it
SpecClient == Init /\ [][NextClient]_vars

Next ==
    \/ Tick
    \/ RoutineRequest(MaxIds - WorkoutIdsUsed - nanoids.cus)
    \/ IdsUsed < MaxIds /\ \E p \in ExerciseBodies : CreateExercise(p)
    \/ \E s \in WorkoutBodies(MaxIds - IdsUsed, RoutineArgs \cup { Null }, { 1, 2, Undef },
                              FlaggedSetInputs) : RecordWorkout(s)

\* Every handler
Spec == Init /\ [][Next /\ UNCHANGED clientVars]_vars

----------------------------------------------------------------------------
(* Claims *)

RoutineRow(rt, id) == CHOOSE r \in rt : r.id = id

\* This step is a successful mutation of routine id by one of the routine handlers:
\* rename with a truthy name, updateSets, addExerciseToRoutine,
\* removeExerciseFromRoutine, addSet or removeSet
RoutineMutation(id) ==
    \/ \E body \in PutBodies : TruthyStr(body.name) /\ PutRoutine(id, body)
    \/ \E body \in PutBodies : body.hasExercises /\ status' = 200 /\ PutRoutine(id, body)
    \/ \E exerciseId \in ExerciseArgs : status' = 200 /\ AddExercise(id, exerciseId)
    \/ \E rexId \in RexArgs : RemoveExercise(id, rexId)
    \/ \E rexId \in RexArgs, v \in ValueInputs : status' = 200 /\ AddSet(id, rexId, v[1], v[2])
    \/ \E rexId \in RexArgs, setId \in SetArgs : RemoveSet(id, rexId, setId)

\* C1 as stated: updatedAt of every routine never decreases, and every routine
\* mutation leaves it strictly greater than it was immediately before.
C1_StrictlyGreater ==
    [][ \A r \in routines :
          /\ r.id \in { q.id : q \in routines' }
          /\ RoutineRow(routines', r.id).updatedAt >= r.updatedAt
          /\ RoutineRow(routines', r.id).updatedAt > r.updatedAt \/ ~RoutineMutation(r.id) ]_vars

\* C1 (amended): updatedAt of every routine never decreases, and every routine mutation
\* leaves it equal to the time of the mutation, which is greater than or equal to its
\* value before and strictly greater only when the clock has advanced since the
\* routine was last written.
C1_RefreshedNotBefore ==
    [][ \A r \in routines :
          /\ r.id \in { q.id : q \in routines' }
          /\ r.updatedAt <= clock
          /\ RoutineRow(routines', r.id).updatedAt >= r.updatedAt
          /\ \/ /\ RoutineRow(routines', r.id).updatedAt = clock
                /\ (r.updatedAt < clock => RoutineRow(routines', r.id).updatedAt > r.updatedAt)
             \/ ~RoutineMutation(r.id) ]_vars

\* C1 witness: a routine that was mutated in the millisecond of its last write (its
\* exercise was added at its creation time) and one mutated after the clock advanced
C1_Witness ==
    \E r \in routines :
        /\ r.updatedAt > r.createdAt
        /\ r.updatedAt = clock
        /\ \E x \in routine_exercises : x.routine_id = r.id

\* The routine_exercises rows of routine id, and the routine_sets rows under them
RexOf(rx, id) == { x \in rx : x.routine_id = id }
SetsOf(rs, rx, id) ==
    { rs[i] : i \in { j \in 1..Len(rs) :
                        \E x \in RexOf(rx, id) : x.id = rs[j].routine_exercise_id } }

\* C2 as stated: an operation that inserts, updates or deletes a RoutineExercise or
\* RoutineSet row belonging to routine R refreshes R's updatedAt in the same step.
\* (Stated for the runs in which foreign keys are enforced, where every row
\* references rows that exist; such runs are possible without enforcement too.)
C2_SubtreeWriteRefreshes ==
    [][ \A r \in routines :
          (/\ foreignKeys
           /\ \/ RexOf(routine_exercises', r.id) # RexOf(routine_exercises, r.id)
              \/ SetsOf(routine_sets', routine_exercises', r.id)
                   # SetsOf(routine_sets, routine_exercises, r.id))
          => RoutineRow(routines', r.id).updatedAt = clock ]_vars

\* This step is a Routine Composition request whose path names routine id
CompositionRequest(id) ==
    \/ \E body \in PutBodies : PutRoutine(id, body)
    \/ \E exerciseId \in ExerciseArgs : AddExercise(id, exerciseId)
    \/ \E rexId \in RexArgs : RemoveExercise(id, rexId)
    \/ \E rexId \in RexArgs, v \in ValueInputs : AddSet(id, rexId, v[1], v[2])
    \/ \E rexId \in RexArgs, setId \in SetArgs : RemoveSet(id, rexId, setId)

\* C3 as stated: a Routine Composition request for routine A, whatever routine
\* exercise and set it names, leaves the row, the RoutineExercise rows and the
\* RoutineSet rows of every other routine B unchanged.
\* (Stated for the runs in which foreign keys are enforced, as C2.)
C3_NoCrossRoutineEffect ==
    [][ \A a \in routines, b \in routines :
          (foreignKeys /\ a.id # b.id) =>
            \/ /\ b \in routines'
               /\ RexOf(routine_exercises', b.id) = RexOf(routine_exercises, b.id)
               /\ SetsOf(routine_sets', routine_exercises', b.id)
                    = SetsOf(routine_sets, routine_exercises, b.id)
            \/ ~CompositionRequest(a.id) ]_vars

\* C4 as stated: after removeExerciseFromRoutine(routineId, routineExerciseId) the
\* RoutineExercise with that identity is gone and so is every RoutineSet under it;
\* the sets are deleted exactly when the RoutineExercise is.
\* (Stated for the runs in which foreign keys are enforced, as C2.)
C4_RemoveExerciseCascades ==
    [][ \A id \in RoutineIds, rexId \in RexIds :
          (foreignKeys /\ RemoveExercise(id, rexId)) =>
            /\ rexId \notin { x.id : x \in routine_exercises' }
            /\ \A i \in 1..Len(routine_sets') : routine_sets'[i].routine_exercise_id # rexId
            /\ (routine_sets' # routine_sets) <=> (routine_exercises' # routine_exercises) ]_vars

\* C5: addExerciseToRoutine gives the new RoutineExercise the position max + 1 of
\* its routine: above every position the routine holds, 1 when it holds none, and
\* otherwise one more than a position it holds (a gap below the maximum is not reused).
C5_OrderIsMaxPlusOne ==
    [][ \A x \in routine_exercises' \ routine_exercises :
          LET held == { y.order_index : y \in RexOf(routine_exercises, x.routine_id) }
          IN  /\ \A o \in held : o < x.order_index
              /\ IF held = {} THEN x.order_index = 1 ELSE (x.order_index - 1) \in held ]_vars

\* C5 witness: a routine whose exercises hold the positions {1, 3, 4}: position 2 was
\* freed by a removal and the next addition, onto {1, 3}, got 4
C5_Witness ==
    \E r \in routines :
        { x.order_index : x \in RexOf(routine_exercises, r.id) } = { 1, 3, 4 }

\* C6 as stated: creating an exercise whose name is absent, empty or only whitespace
\* answers 400 and inserts no row; every row created has a non-empty name and is custom.
C6_BlankNameRejected ==
    [][ /\ \A p \in ExerciseBodies :
             (CreateExercise(p) /\ (~p.hasName \/ Trim(p.name) = << >>))
             => (status' = 400 /\ exercises' = exercises)
        /\ \A i \in (Len(exercises) + 1)..Len(exercises') :
             exercises'[i].name # << >> /\ exercises'[i].isCustom = 1 ]_vars

\* The rows of workout_items of the workout with identity id, and the rows of
\* workout_sets of the item with identity id, in rowid order
ItemsOfWorkout(id) == SelectSeq(workout_items, LAMBDA w : w.workout_id = id)
SetsOfItem(id) == SelectSeq(workout_sets, LAMBDA st : st.workout_item_id = id)

\* C7: the rows of the workout tables are exactly those of the bodies recordWorkout
\* has accepted: one session row per body; under it one item row per payload item,
\* in payload order with positions 0..N-1; under item i one set row per payload set,
\* in payload order, done stored as 1 when given true and 0 otherwise; and no other
\* row, so a request that failed has left none.
C7_RecordedSubtrees ==
    /\ Len(workouts) = Len(recorded)
    /\ \A k \in 1..Len(workouts) : \A l \in 1..Len(workouts) :
          workouts[k].id = workouts[l].id => k = l
    /\ \A k \in 1..Len(workout_items) : \A l \in 1..Len(workout_items) :
          workout_items[k].id = workout_items[l].id => k = l
    /\ \A i \in 1..Len(workout_items) :
          \E k \in 1..Len(workouts) : workout_items[i].workout_id = workouts[k].id
    /\ \A j \in 1..Len(workout_sets) :
          \E i \in 1..Len(workout_items) : workout_sets[j].workout_item_id = workout_items[i].id
    /\ \A k \in 1..Len(recorded) :
          LET s == recorded[k]
              its == ItemsOfWorkout(workouts[k].id)
          IN  /\ workouts[k].routine_id = s.routineId
              /\ workouts[k].startedAt = s.startedAt
              /\ workouts[k].finishedAt = s.finishedAt
              /\ workouts[k].durationSec = s.durationSec
              /\ Len(its) = Len(s.items)
              /\ \A i \in 1..Len(its) :
                    LET it == s.items[i]
                        sts == SetsOfItem(its[i].id)
                    IN  /\ its[i].order_index = i - 1
                        /\ its[i].exercise_id = it.exerciseId
                        /\ its[i].name = it.name
                        /\ its[i].bodyPart = it.bodyPart
                        /\ its[i].image = it.image
                        /\ Len(sts) = Len(it.sets)
                        /\ \A j \in 1..Len(sts) :
                              /\ sts[j].reps = it.sets[j].reps
                              /\ sts[j].peso = it.sets[j].peso
                              /\ sts[j].done = 1 <=> it.sets[j].done = "true"
                              /\ sts[j].done \in { 0, 1 }

\* C7 witness: a session of two items was recorded, the first with a set given as not
\* done, and a later request failed in the middle of its inserts
C7_Witness ==
    /\ status = 500
    /\ \E k \in 1..Len(recorded) :
          /\ Len(recorded[k].items) = 2
          /\ Len(recorded[k].items[1].sets) = 1
          /\ recorded[k].items[1].sets[1].done = "false"

IsPrefix(a, b) == Len(a) <= Len(b) /\ SubSeq(b, 1, Len(a)) = a

\* C8: no step of any handler changes or deletes a row of workouts, workout_items or
\* workout_sets that exists: every table keeps its rows and only grows at its end.
C8_SessionsWriteOnce ==
    [][ /\ IsPrefix(workouts, workouts')
        /\ IsPrefix(workout_items, workout_items')
        /\ IsPrefix(workout_sets, workout_sets') ]_vars

\* C8 witness: a session with an item is on record beside a routine that has been
\* renamed after the clock advanced
C8_Witness ==
    /\ workout_items # << >>
    /\ \E r \in routines : r.name = "A" /\ r.updatedAt > r.createdAt

\* The recorded sets of exercise e: the (peso, reps) of every workout_sets row whose
\* item carries e
RecordedSets(e) ==
    { << workout_sets[j].peso, workout_sets[j].reps >> :
        j \in { n \in 1..Len(workout_sets) :
                  \E i \in 1..Len(workout_items) :
                      /\ workout_items[i].id = workout_sets[n].workout_item_id
                      /\ workout_items[i].exercise_id = e } }

\* Set a = <<peso, reps>> is at least as good as set b under the claim's order: a
\* weight before no weight, the higher weight first, then reps before no reps, the
\* higher reps first
AtLeastAsGood(a, b) ==
    IF a[1] # b[1]
    THEN b[1] = Null \/ (a[1] # Null /\ a[1] > b[1])
    ELSE b[2] = Null \/ (a[2] # Null /\ a[2] >= b[2])

\* C9 as stated: the personal record of every exercise is its recorded set that is
\* maximal under the order: the view returns that set's weight and reps.
C9_PrIsMaximalSet ==
    \A m \in Marks :
        /\ << m.pr_weight, m.reps_at_pr >> \in RecordedSets(m.exercise_id)
        /\ \A b \in RecordedSets(m.exercise_id) :
              AtLeastAsGood(<< m.pr_weight, m.reps_at_pr >>, b)

\* C9 (amended): the personal record of every exercise is its recorded set that is
\* maximal under the order; the view returns that set's weight, and its reps with
\* 0 in place of null reps.
C9_PrIsMaximalSetRepsOrZero ==
    \A m \in Marks :
        \E a \in RecordedSets(m.exercise_id) :
            /\ m.pr_weight = a[1]
            /\ m.reps_at_pr = (IF a[2] = Null THEN 0 ELSE a[2])
            /\ \A b \in RecordedSets(m.exercise_id) : AtLeastAsGood(a, b)

\* C9 witness: an exercise with the sets (100, 5) and (100, 8) under different items
\* and a lighter set, whose personal record is weight 100 with reps 8
C9_Witness ==
    \E m \in Marks :
        /\ m.pr_weight = 100 /\ m.reps_at_pr = 8
        /\ { << 100, 5 >>, << 100, 8 >> } \subseteq RecordedSets(m.exercise_id)
        /\ \E i \in 1..Len(workout_items), j \in 1..Len(workout_items) :
              /\ i # j
              /\ workout_items[i].exercise_id = m.exercise_id
              /\ workout_items[j].exercise_id = m.exercise_id
              /\ SetsOfItem(workout_items[i].id) # << >>
              /\ SetsOfItem(workout_items[j].id) # << >>

\* C10: the view has exactly one row for every exercise identity with at least one
\* recorded set and none for any other; an exercise whose recorded sets all lack a
\* weight has a row whose weight is null.
C10_OneRowPerExerciseWithSets ==
    LET ids == { workout_items[i].exercise_id : i \in 1..Len(workout_items) } \cup { 1, 2 }
    IN  /\ \A m \in Marks : RecordedSets(m.exercise_id) # {}
        /\ \A e \in ids :
              /\ RecordedSets(e) # {} => Cardinality({ m \in Marks : m.exercise_id = e }) = 1
              /\ RecordedSets(e) = {} => \A m \in Marks : m.exercise_id # e
              /\ (RecordedSets(e) # {} /\ \A a \in RecordedSets(e) : a[1] = Null)
                 => \A m \in Marks : m.exercise_id = e => m.pr_weight = Null

\* C10 witness: one exercise has only sets without a weight and a row with a null
\* weight, another has an item but no set and no row
C10_Witness ==
    \E e \in { 1, 2 }, f \in { 1, 2 } :
        /\ RecordedSets(e) # {}
        /\ \A a \in RecordedSets(e) : a[1] = Null
        /\ \E m \in Marks : m.exercise_id = e /\ m.pr_weight = Null
        /\ \E i \in 1..Len(workout_items) : workout_items[i].exercise_id = f
        /\ RecordedSets(f) = {}
        /\ \A m \in Marks : m.exercise_id # f

\* The positions in a list of entries that name the set with identity id
Listing(entries, id) == { k \in 1..Len(entries) : entries[k].id = id }

\* C11: updateSets on routine R with a list whose entries carry reps and weight gives
\* every set that an entry names the values of the last entry naming it, leaves every
\* other row of routine_sets and routine_exercises as it was, answers without error
\* whether entries lack an identity or name no set, and sets R's updatedAt to the time
\* of the call, also when the list is empty or no set matched; no other routine and
\* no name changes.
C11_UpdateSetsSkipsUnknown ==
    [][ \A id \in RoutineArgs, body \in UpdateBodies :
          \/ LET entries == ListedSets(body.exercises)
             IN  /\ status' = 200
                 /\ Len(routine_sets') = Len(routine_sets)
                 /\ \A i \in 1..Len(routine_sets) :
                       LET row == routine_sets[i]
                           ks == Listing(entries, row.id)
                       IN  routine_sets'[i] =
                             IF ks = {} THEN row
                             ELSE [ row EXCEPT !.reps = entries[Max(ks)].reps,
                                               !.peso = entries[Max(ks)].peso ]
                 /\ routine_exercises' = routine_exercises
                 /\ Cardinality(routines') = Cardinality(routines)
                 /\ \A r \in routines :
                       [ r EXCEPT !.updatedAt = IF r.id = id THEN clock ELSE r.updatedAt ]
                           \in routines'
          \/ ~PutRoutine(id, body) ]_vars

\* C11 witness: a set added without values holds values an update gave it, and its
\* routine was refreshed after the clock advanced
C11_Witness ==
    /\ status = 200
    /\ \E i \in 1..Len(routine_sets) : routine_sets[i].reps = 1 /\ routine_sets[i].peso = 2
    /\ \E r \in routines : r.updatedAt > r.createdAt


\* C12: addExerciseToRoutine without an exerciseId answers 400 and changes no row: no
\* routine_exercises row is added and updatedAt of no routine is touched.
C12_MissingExerciseIdRejected ==
    [][ \A id \in RoutineArgs :
          \/ /\ status' = 400
             /\ UNCHANGED << exercises, routineTables, workoutTables, nanoids >>
          \/ ~AddExercise(id, Undef) ]_vars

\* C12 witness: the request was rejected for a routine that exists, after the clock
\* advanced past the routine's last write
C12_Witness ==
    /\ status = 400
    /\ \E r \in routines : r.updatedAt < clock


\* C13: each call is one atomic unit: a call that fails (answers 500) has applied none
\* of its row changes, the refresh of updatedAt and a rename included.
C13_FailedCallChangesNothing ==
    [][ status' = 500 => UNCHANGED << exercises, routineTables, workoutTables >> ]_vars


\* C14: however often the server starts, and whatever catalog operations run in
\* between, every seed exercise is in the catalog exactly once and the catalog has as
\* many rows as the seed plus the exercises users created.
C14_SeedLoadedOnce ==
    /\ Len(exercises) = Len(SeedExercises) + nanoids.cus
    /\ \A k \in 1..Len(SeedExercises) :
          Cardinality({ i \in 1..Len(exercises) : exercises[i].id = SeedExercises[k].id }) = 1

\* C14 witness: the server has started again after users created two exercises
C14_Witness ==
    /\ status = 0
    /\ nanoids.cus = 2


C19_PositionsDistinctInAddOrder ==
    /\ \A x \in routine_exercises : x.order_index >= 1
    /\ \A x \in routine_exercises, y \in routine_exercises :
          (x.routine_id = y.routine_id /\ x.id # y.id) => x.order_index # y.order_index
    /\ \A r \in routines :
          LET exs == LoadRoutineFull(r.id).exercises
          IN  \A i \in 1..Len(exs), j \in 1..Len(exs) : i < j => exs[i].id < exs[j].id

\* C19 witness: a routine whose first exercise was removed and which got another
\* exercise afterwards, so that it holds the positions 2 and 3
C19_Witness ==
    \E r \in routines :
        LET exs == LoadRoutineFull(r.id).exercises
        IN  /\ Len(exs) = 2
            /\ exs[1].order_index = 2
            /\ exs[2].order_index = 3


\* C17: opening the edit view of a routine and saving without typing into any input
\* leaves reps and peso of every set of that routine as they were.
C17_UntouchedSaveKeepsValues ==
    [][ \A id \in RoutineIds :
          \/ /\ Len(routine_sets') = Len(routine_sets)
             /\ \A i \in 1..Len(routine_sets) :
                   routine_sets[i].routine_exercise_id \in { x.id : x \in RexOf(routine_exercises, id) }
                   => /\ routine_sets'[i].reps = routine_sets[i].reps
                      /\ routine_sets'[i].peso = routine_sets[i].peso
          \/ ~SaveRoutine(id, << >>, << >>) ]_vars



\* C15: the workout tables change only in a step taken while the confirmation dialog of
\* the finish action is open over a session startWorkout has built, and the workout then
\* written is that session; leaving the workout view and editing reps, weight or
\* completion toggles leave the workout tables as they are
C15_RecordedOnlyOnConfirm ==
    [][ workoutTables' # workoutTables =>
          /\ modal = "confirm" /\ modal' = "done"
          /\ clientState.hasSession /\ clientState.view = "workout"
          /\ Len(workouts') = Len(workouts) + 1
          /\ LET w == workouts'[Len(workouts')]
             IN  /\ w.routine_id = clientState.workoutSession.routineId
                 /\ w.startedAt = clientState.workoutSession.startedAt ]_vars

\* C15: a workout has been recorded, and a later session whose set was edited and marked
\* done has been left through the back button and is still not recorded
C15_Witness ==
    /\ Len(workouts) = 1
    /\ clientState.view = "routines" /\ clientState.hasSession
    /\ clientState.workoutSession.finishedAt = Null
    /\ \E c \in 1..Len(clientState.workoutSession.items) :
         \E k \in 1..Len(clientState.workoutSession.items[c].sets) :
            /\ clientState.workoutSession.items[c].sets[k].done
            /\ clientState.workoutSession.items[c].sets[k].reps = 8

====
